---- MODULE Spec2Model ----
(***************************************************************************)
(* State-machine model of the DAC2 code-translation subsystem of           *)
(* oda_importer (schemas/dac2_translation.py) and of download_dac1         *)
(* (dac1.py).                                                              *)
(*                                                                         *)
(* The mapping store is the pair of JSON documents named by MAPPINGS, the  *)
(* price mapping document of dac1_translation is a third one.  Helpers     *)
(* that live outside the two modelled files (read_mapping, parse_xml,      *)
(* extract_dac_to_area_codes, map_area_codes, map_amount_type_codes,       *)
(* prices_mapping, preprocess, the query builder) are modelled from their  *)
(* documented contracts.                                                   *)
(*                                                                         *)
(* Spec is the translation subsystem (area_code_mapping,                   *)
(* update_dac2_translation_mappings, convert_to_dotstat_codes); SpecDac1   *)
(* is download_dac1, which shares no state with the mapping store.         *)
(***************************************************************************)
EXTENDS Integers, Sequences, FiniteSets, TLC

VARIABLES
    store,         \* MAPPINGS location -> [exists, data] (JSON document, string keys)
    prices_store,  \* the price mapping document: [exists, items]
    pc,            \* position of the running call ("idle" between calls)
    ret,           \* outcome of the last completed top-level call
    prev,          \* outcome of the area_code_mapping() call completed just before ret
    arg,           \* convert_to_dotstat_codes: the Dataset value passed in
    caller_df,     \* the caller's Dataset object, as it is now
    df,            \* the local name df
    aliased,       \* whether df still names the caller's object
    area_codes,    \* the local area_codes
    prices_src,    \* what prices_mapping() returned (items, in dict order)
    prices_codes,  \* the local prices_codes
    log,           \* the steps of the running (or last) conversion, in order
    dl             \* download_dac1: its arguments, locals and outcome

locals == <<arg, caller_df, df, aliased, area_codes, prices_src, prices_codes, log>>

translation == <<store, prices_store, ret, prev, locals>>

vars == <<store, prices_store, pc, ret, prev, locals, dl>>

(***************************************************************************)
(* Bounds and input alphabets                                              *)
(***************************************************************************)
MaxRows == 2

\* keys of a stored area document (JSON object keys are strings); "x" is a
\* key that int() rejects
AreaKeys == {"1", "2"}
BadKey == "x"
AreaVals == {2, 9}

BASE == "dac2_codes_area"
CORRECTIONS == "area_code_corrections"

MAPPINGS == {BASE, CORRECTIONS}

UPDATE_DAC2 == "update_dac2_translation_mappings"

AREA_CODE_MAPPING == "area_code_mapping"

Absent == [exists |-> FALSE, data |-> <<>>]

Present(m) == [exists |-> TRUE, data |-> m]

PartialMaps(K, V) == UNION {[S -> V] : S \in SUBSET K}

\* documents the extractor can write / a curator can have stored
AreaDocs == PartialMaps(AreaKeys, AreaVals)

BadDoc == [k \in {BadKey} |-> 9]

(***************************************************************************)
(* Schema fetch + extraction (xml_tools, modelled from the contract)       *)
(***************************************************************************)
\* what one run of parse_xml + extract_dac_to_area_codes can do: fail while
\* fetching or parsing, persist an extracted document, or persist nothing
UpdateOutcomes ==
    {[err |-> e, wrote |-> FALSE, data |-> <<>>] : e \in {"NetworkError", "ParseError"}}
    \cup {[err |-> "", wrote |-> TRUE, data |-> m] : m \in AreaDocs}
    \cup {[err |-> "", wrote |-> FALSE, data |-> <<>>]}

\* the pipeline is not run: nothing is fetched, nothing is written
NotRun == [err |-> "", wrote |-> FALSE, data |-> <<>>]

\* the outcomes to consider for a read of `path`: the pipeline runs only on a
\* miss, so on a hit its outcome is immaterial and one value stands for all
OutcomesFor(st, path) == IF st[path].exists THEN {NotRun} ELSE UpdateOutcomes

\* extract_dac_to_area_codes(xml_dict, filename): persists the extracted
\* document at filename
extract_dac_to_area_codes(st, filename, u) ==
    IF u.wrote THEN [st EXCEPT ![filename] = Present(u.data)] ELSE st

\* fault variant: the extractor is handed the corrections path
update_dac2_translation_mappingsWritesCorrections(st, u) ==
    IF u.err # ""
    THEN [err |-> u.err, store |-> st]
    ELSE [err |-> "", store |-> extract_dac_to_area_codes(st, CORRECTIONS, u)]

\* update_dac2_translation_mappings(): parse the schema, then extract the
\* donor-code -> area-code document into MAPPINGS["dac2_codes_area"]
update_dac2_translation_mappings(st, u) ==
    IF u.err # ""
    THEN [err |-> u.err, store |-> st]
    ELSE [err |-> "", store |-> extract_dac_to_area_codes(st, BASE, u)]

\* call of the `update` callable handed to read_mapping
RunUpdate(update, st, u) ==
    IF update = UPDATE_DAC2
    THEN update_dac2_translation_mappings(st, u)
    ELSE [err |-> "", store |-> st]

(***************************************************************************)
(* read_mapping (xml_tools, modelled from the Mapping Loader contract)     *)
(***************************************************************************)
IsIntString(s) == s \in {"1", "2", "3"}

\* int(key) of a JSON object key
StrToInt(s) ==
    CASE s = "1" -> 1
      [] s = "2" -> 2
      [] s = "3" -> 3

KeysAsInt(doc) ==
    [n \in {StrToInt(k) : k \in DOMAIN doc} |->
        doc[CHOOSE k \in DOMAIN doc : StrToInt(k) = n]]

\* read_mapping(path, keys_as_int, update): read the document when it exists,
\* otherwise run `update` once and read what it left
read_mapping(st, path, keys_as_int, update, u) ==
    LET miss == ~st[path].exists
        upd == IF miss THEN RunUpdate(update, st, u) ELSE [err |-> "", store |-> st]
        st2 == upd.store
        fetched == IF miss THEN <<path>> ELSE <<>>
        fail(e) == [err |-> e, map |-> <<>>, store |-> st2, fetched |-> fetched]
    IN  IF upd.err # "" THEN fail(upd.err)
        ELSE IF ~st2[path].exists THEN fail("UpdateFailedError")
        ELSE IF keys_as_int /\ \E k \in DOMAIN st2[path].data : ~IsIntString(k)
             THEN fail("KeyCoercionError")
        ELSE [err |-> "",
              map |-> IF keys_as_int THEN KeysAsInt(st2[path].data) ELSE st2[path].data,
              store |-> st2,
              fetched |-> fetched]

(***************************************************************************)
(* area_code_mapping                                                       *)
(***************************************************************************)
\* fault variant: the left operand wins on a shared key
DictOrLeftWins(a, b) ==
    [k \in DOMAIN a \cup DOMAIN b |-> IF k \in DOMAIN a THEN a[k] ELSE b[k]]

\* Python's dict union a | b: keys of both, the right operand wins
DictOr(a, b) ==
    [k \in DOMAIN a \cup DOMAIN b |-> IF k \in DOMAIN b THEN b[k] ELSE a[k]]

\* fault variant: the update pipeline is run before the documents are read
area_code_mappingAlwaysUpdates(st, u1, u2) ==
    LET up == update_dac2_translation_mappings(st, u1)
        b == read_mapping(up.store, BASE, TRUE, UPDATE_DAC2, u1)
        c == read_mapping(b.store, CORRECTIONS, TRUE, UPDATE_DAC2, u2)
    IN  [err |-> IF up.err # "" THEN up.err ELSE IF b.err # "" THEN b.err ELSE c.err,
         map |-> IF up.err = "" /\ b.err = "" /\ c.err = "" THEN DictOr(b.map, c.map) ELSE <<>>,
         base |-> b.map, corr |-> c.map, store |-> c.store,
         fetched |-> <<BASE>> \o c.fetched]

\* area_code_mapping(): the left operand is read first, the right operand
\* only when the left one did not raise; u1, u2 are what the update pipeline
\* does if the first, the second read runs it
area_code_mapping(st, u1, u2) ==
    LET b == read_mapping(st, BASE, TRUE, UPDATE_DAC2, u1)
        c == read_mapping(b.store, CORRECTIONS, TRUE, UPDATE_DAC2, u2)
    IN  IF b.err # ""
        THEN [err |-> b.err, map |-> <<>>, base |-> <<>>, corr |-> <<>>,
              store |-> b.store, fetched |-> b.fetched]
        ELSE IF c.err # ""
        THEN [err |-> c.err, map |-> <<>>, base |-> b.map, corr |-> <<>>,
              store |-> c.store, fetched |-> b.fetched \o c.fetched]
        ELSE [err |-> "", map |-> DictOr(b.map, c.map), base |-> b.map, corr |-> c.map,
              store |-> c.store, fetched |-> b.fetched \o c.fetched]

(***************************************************************************)
(* prices_mapping (dac1_translation, modelled from the loader contract)    *)
(***************************************************************************)
PriceKeys == <<"A", "B">>

PriceVals == {"x", "y"}

\* a price document: its items in document order
PriceDocs == {<< <<PriceKeys[1], a>>, <<PriceKeys[2], b>> >> : a \in PriceVals, b \in PriceVals}

PriceUpdateOutcomes ==
    {[err |-> e, wrote |-> FALSE, items |-> <<>>] : e \in {"NetworkError"}}
    \cup {[err |-> "", wrote |-> TRUE, items |-> d] : d \in PriceDocs}

\* prices_mapping(): load the price document, running its update pipeline
\* once when the document is missing
prices_mapping(ps, u) ==
    IF ps.exists THEN [err |-> "", items |-> ps.items, store |-> ps]
    ELSE IF u.err # "" THEN [err |-> u.err, items |-> <<>>, store |-> ps]
    ELSE IF ~u.wrote THEN [err |-> "UpdateFailedError", items |-> <<>>, store |-> ps]
    ELSE [err |-> "", items |-> u.items, store |-> [exists |-> TRUE, items |-> u.items]]

Last(S) == CHOOSE i \in S : \A j \in S : j <= i

\* {v: k for k, v in prices_mapping().items()}: a later item overwrites an
\* earlier one with the same value; the comprehension never raises
Invert(items) ==
    [err |-> "",
     map |-> [v \in {items[i][2] : i \in DOMAIN items} |->
                items[Last({i \in DOMAIN items : items[i][2] = v})][1]]]

(***************************************************************************)
(* Datasets and the column translators (schema_tools, modelled from the    *)
(* Column Translator contract)                                             *)
(***************************************************************************)
Rows == [donor_code : {1, 2}, recipient_code : {2}, data_type_code : {"x"}, value : {0, 1}]

Datasets == UNION {[1..n -> Rows] : n \in 0..MaxRows}

\* one value looked up in a mapping; a value that is no key passes through
Lookup(mapping, v) == IF v \in DOMAIN mapping THEN mapping[v] ELSE v

\* map_area_codes(df, area_code_mapping, source_column, target_column):
\* a new Dataset whose target column is the source column looked up in the
\* mapping; `arg` is the passed object after the call, `fresh` tells that the
\* returned Dataset is another object
map_area_codes(d, mapping, source_column, target_column) ==
    [df |-> [i \in DOMAIN d |-> [d[i] EXCEPT ![target_column] = Lookup(mapping, d[i][source_column])]],
     arg |-> d,
     fresh |-> TRUE]

\* map_amount_type_codes(df, prices_mapping, source_column, target_column)
map_amount_type_codes(d, mapping, source_column, target_column) ==
    [df |-> [i \in DOMAIN d |-> [d[i] EXCEPT ![target_column] = Lookup(mapping, d[i][source_column])]],
     arg |-> d,
     fresh |-> TRUE]

(***************************************************************************)
(* Initial state                                                           *)
(***************************************************************************)
NoRet == [op |-> "none"]

NoPrices == [exists |-> FALSE, items |-> <<>>]

FreshLocals ==
    /\ arg = <<>>
    /\ caller_df = <<>>
    /\ df = <<>>
    /\ aliased = FALSE
    /\ area_codes = <<>>
    /\ prices_src = <<>>
    /\ prices_codes = <<>>
    /\ log = <<>>

\* no download_dac1 call has been made
NoDownload == [phase |-> "none"]

InitStores ==
    {[l \in MAPPINGS |-> IF l = BASE THEN b ELSE c] :
        b \in {Absent} \cup {Present(m) : m \in AreaDocs},
        c \in {Absent, Present(BadDoc)} \cup {Present(m) : m \in AreaDocs}}

InitPrices == {NoPrices} \cup {[exists |-> TRUE, items |-> d] : d \in PriceDocs}

Init ==
    /\ store \in InitStores
    /\ prices_store \in InitPrices
    /\ pc = "idle"
    /\ ret = NoRet
    /\ prev = NoRet
    /\ FreshLocals
    /\ dl = NoDownload

ResetLocals ==
    /\ arg' = <<>>
    /\ caller_df' = <<>>
    /\ df' = <<>>
    /\ aliased' = FALSE
    /\ area_codes' = <<>>
    /\ prices_src' = <<>>
    /\ prices_codes' = <<>>
    /\ log' = <<>>

(***************************************************************************)
(* Top-level calls that run to completion in one step                      *)
(***************************************************************************)
\* a caller invokes area_code_mapping(); the pipeline writes the base
\* document only, so whether the second read misses is known from the store
\* as it is before the call
AreaCodeMappingCall ==
    /\ pc = "idle"
    /\ \E u1 \in OutcomesFor(store, BASE), u2 \in OutcomesFor(store, CORRECTIONS) :
         LET r == area_code_mapping(store, u1, u2)
         IN  /\ store' = r.store
             /\ ret' = [op |-> AREA_CODE_MAPPING, err |-> r.err, map |-> r.map,
                        base |-> r.base, corr |-> r.corr,
                        pre |-> store, fetched |-> r.fetched]
    /\ prev' = IF ret.op = AREA_CODE_MAPPING THEN ret ELSE NoRet
    /\ ResetLocals
    /\ UNCHANGED <<prices_store, pc, dl>>

\* a caller invokes update_dac2_translation_mappings()
UpdateCall ==
    /\ pc = "idle"
    /\ \E u \in UpdateOutcomes :
         LET r == update_dac2_translation_mappings(store, u)
         IN  /\ store' = r.store
             /\ ret' = [op |-> UPDATE_DAC2, err |-> r.err, wrote |-> u.err = "" /\ u.wrote,
                        pre |-> store]
    /\ prev' = NoRet
    /\ ResetLocals
    /\ UNCHANGED <<prices_store, pc, dl>>

(***************************************************************************)
(* convert_to_dotstat_codes, statement by statement                        *)
(***************************************************************************)
CONVERT == "convert_to_dotstat_codes"

ConvertOrder == <<"area_codes", "prices_codes", "donor_code", "recipient_code", "data_type_code">>

\* fault variant: the donor column is mapped before the price mapping is loaded
NextStepDonorBeforePrices(p) ==
    CASE p = "area_codes" -> "donor_code"
      [] p = "donor_code" -> "prices_codes"
      [] p = "prices_codes" -> "recipient_code"
      [] p = "recipient_code" -> "data_type_code"
      [] p = "data_type_code" -> "return"

\* the statement that follows statement p of convert_to_dotstat_codes
NextStep(p) ==
    CASE p = "area_codes" -> "prices_codes"
      [] p = "prices_codes" -> "donor_code"
      [] p = "donor_code" -> "recipient_code"
      [] p = "recipient_code" -> "data_type_code"
      [] p = "data_type_code" -> "return"

\* an exception leaves the function: nothing is returned
Raise(e) ==
    /\ pc' = "idle"
    /\ ret' = [op |-> CONVERT, err |-> e, returned |-> FALSE]

Entry(step, e, m) == [step |-> step, err |-> e, mapping |-> m]

\* a caller invokes convert_to_dotstat_codes(df)
ConvertCall ==
    /\ pc = "idle"
    /\ \E d \in Datasets :
         /\ arg' = d
         /\ caller_df' = d
         /\ df' = d
    /\ aliased' = TRUE
    /\ area_codes' = <<>>
    /\ prices_src' = <<>>
    /\ prices_codes' = <<>>
    /\ log' = <<>>
    /\ pc' = "area_codes"
    /\ ret' = NoRet
    /\ prev' = NoRet
    /\ UNCHANGED <<store, prices_store, dl>>

\* fault variant: an error of area_code_mapping() is caught and the
\* conversion goes on with an empty mapping
LoadAreaCodesSwallowsError ==
    /\ pc = "area_codes"
    /\ \E u1 \in OutcomesFor(store, BASE), u2 \in OutcomesFor(store, CORRECTIONS) :
         LET r == area_code_mapping(store, u1, u2)
         IN  /\ store' = r.store
             /\ log' = Append(log, Entry("area_codes", r.err, r.map))
             /\ area_codes' = r.map
             /\ pc' = NextStep(pc)
             /\ UNCHANGED ret
    /\ UNCHANGED <<dl, prices_store, prev, arg, caller_df, df, aliased, prices_src, prices_codes>>

\* area_codes = area_code_mapping()
LoadAreaCodes ==
    /\ pc = "area_codes"
    /\ \E u1 \in OutcomesFor(store, BASE), u2 \in OutcomesFor(store, CORRECTIONS) :
         LET r == area_code_mapping(store, u1, u2)
         IN  /\ store' = r.store
             /\ log' = Append(log, Entry("area_codes", r.err, r.map))
             /\ IF r.err # ""
                THEN Raise(r.err) /\ UNCHANGED area_codes
                ELSE /\ area_codes' = r.map
                     /\ pc' = NextStep(pc)
                     /\ UNCHANGED ret
    /\ UNCHANGED <<dl, prices_store, prev, arg, caller_df, df, aliased, prices_src, prices_codes>>

\* prices_codes = {v: k for k, v in prices_mapping().items()}
LoadPricesCodes ==
    /\ pc = "prices_codes"
    /\ \E u \in PriceUpdateOutcomes :
         LET p == prices_mapping(prices_store, u)
             inv == Invert(p.items)
             e == IF p.err # "" THEN p.err ELSE inv.err
         IN  /\ prices_store' = p.store
             /\ prices_src' = p.items
             /\ log' = Append(log, Entry("prices_codes", e, inv.map))
             /\ IF e # ""
                THEN Raise(e) /\ UNCHANGED prices_codes
                ELSE /\ prices_codes' = inv.map
                     /\ pc' = NextStep(pc)
                     /\ UNCHANGED ret
    /\ UNCHANGED <<dl, store, prev, arg, caller_df, df, aliased, area_codes>>

\* the effect of df = f(df, ...) on the local name and on the caller's object
Rebind(r) ==
    /\ df' = r.df
    /\ caller_df' = IF aliased THEN r.arg ELSE caller_df
    /\ aliased' = (aliased /\ ~r.fresh)

\* df = map_area_codes(df, area_code_mapping=area_codes)
MapDonorCodes ==
    /\ pc = "donor_code"
    /\ Rebind(map_area_codes(df, area_codes, "donor_code", "donor_code"))
    /\ log' = Append(log, Entry("donor_code", "", area_codes))
    /\ pc' = NextStep(pc)
    /\ UNCHANGED <<dl, store, prices_store, ret, prev, arg, area_codes, prices_src, prices_codes>>

\* fault variant: source_column left at its default, "donor_code"
MapRecipientCodesFromDonor ==
    /\ pc = "recipient_code"
    /\ Rebind(map_area_codes(df, area_codes, "donor_code", "recipient_code"))
    /\ log' = Append(log, Entry("recipient_code", "", area_codes))
    /\ pc' = NextStep(pc)
    /\ UNCHANGED <<dl, store, prices_store, ret, prev, arg, area_codes, prices_src, prices_codes>>

\* fault variant: target_column names the value column
MapRecipientCodesIntoValue ==
    /\ pc = "recipient_code"
    /\ Rebind(map_area_codes(df, area_codes, "recipient_code", "value"))
    /\ log' = Append(log, Entry("recipient_code", "", area_codes))
    /\ pc' = NextStep(pc)
    /\ UNCHANGED <<dl, store, prices_store, ret, prev, arg, area_codes, prices_src, prices_codes>>

\* df = map_area_codes(df, area_code_mapping=area_codes,
\*                     source_column="recipient_code", target_column="recipient_code")
MapRecipientCodes ==
    /\ pc = "recipient_code"
    /\ Rebind(map_area_codes(df, area_codes, "recipient_code", "recipient_code"))
    /\ log' = Append(log, Entry("recipient_code", "", area_codes))
    /\ pc' = NextStep(pc)
    /\ UNCHANGED <<dl, store, prices_store, ret, prev, arg, area_codes, prices_src, prices_codes>>

\* df = map_amount_type_codes(df, prices_mapping=prices_codes,
\*                            source_column="data_type_code", target_column="data_type_code")
MapPricesCodes ==
    /\ pc = "data_type_code"
    /\ Rebind(map_amount_type_codes(df, prices_codes, "data_type_code", "data_type_code"))
    /\ log' = Append(log, Entry("data_type_code", "", prices_codes))
    /\ pc' = NextStep(pc)
    /\ UNCHANGED <<dl, store, prices_store, ret, prev, arg, area_codes, prices_src, prices_codes>>

\* return df
ConvertReturn ==
    /\ pc = "return"
    /\ pc' = "idle"
    /\ ret' = [op |-> CONVERT, err |-> "", returned |-> TRUE]
    /\ UNCHANGED <<dl, store, prices_store, prev, locals>>

Next ==
    \/ AreaCodeMappingCall
    \/ UpdateCall
    \/ ConvertCall
    \/ LoadAreaCodes
    \/ LoadPricesCodes
    \/ MapDonorCodes
    \/ MapRecipientCodes
    \/ MapPricesCodes
    \/ ConvertReturn

Spec == Init /\ [][Next]_vars

(***************************************************************************)
(* download_dac1 (dac1.py), statement by statement                         *)
(***************************************************************************)
DATAFLOW_ID == "DSD_DAC1@DF_DAC1"

Years == {"None", "2020", "2022"}

\* what api_response_to_df(url, ...) can do: raise, or hand back a table
DownloadOutcomes == {"NetworkError", "table"}

\* what dac1_translation.convert_to_dotstat_codes(df) can do
Dac1ConvertOutcomes == {"", "UpdateFailedError"}

\* a caller invokes download_dac1(start_year, end_year, download_filters,
\* pre_process, dotstat_codes); the schema translation and the read options
\* are prepared first
DownloadCall ==
    /\ pc = "idle"
    /\ \E start \in Years, end \in Years, filters \in BOOLEAN,
          pre \in BOOLEAN, dot \in BOOLEAN :
         dl' = [phase |-> "running", start_year |-> start, end_year |-> end,
                download_filters |-> filters, pre_process |-> pre, dotstat_codes |-> dot,
                qb |-> [dataflow_id |-> "", filter |-> "", start |-> "None", end |-> "None"],
                url |-> <<>>, df |-> "none", err |-> "", returned |-> FALSE,
                events |-> <<"schema_translation">>]
    /\ pc' = "dl_query_builder"
    /\ UNCHANGED translation

\* qb = QueryBuilder(dataflow_id=DATAFLOW_ID)
DownloadQueryBuilder ==
    /\ pc = "dl_query_builder"
    /\ dl' = [dl EXCEPT !.qb.dataflow_id = DATAFLOW_ID,
                        !.events = Append(@, "query_builder")]
    /\ pc' = "dl_filter"
    /\ UNCHANGED translation

\* if download_filters: qb.set_filter(qb.build_dac1_filter(**download_filters))
DownloadSetFilter ==
    /\ pc = "dl_filter"
    /\ dl' = IF dl.download_filters
             THEN [dl EXCEPT !.qb.filter = "dac1_filter", !.events = Append(@, "set_filter")]
             ELSE dl
    /\ pc' = "dl_build_query"
    /\ UNCHANGED translation

\* url = qb.set_time_period(start=start_year, end=end_year).build_query()
DownloadBuildQuery ==
    /\ pc = "dl_build_query"
    /\ LET q == [dl.qb EXCEPT !.start = dl.start_year, !.end = dl.end_year]
       IN  dl' = [dl EXCEPT !.qb = q,
                            !.url = <<q.dataflow_id, q.filter, q.start, q.end>>,
                            !.events = Append(@, "build_query")]
    /\ pc' = "dl_download"
    /\ UNCHANGED translation

\* df = api_response_to_df(url=url, read_csv_options=df_options)
DownloadData ==
    /\ pc = "dl_download"
    /\ \E o \in DownloadOutcomes :
         IF o = "table"
         THEN /\ dl' = [dl EXCEPT !.df = "raw", !.events = Append(@, "download")]
              /\ pc' = "dl_branch"
         ELSE /\ dl' = [dl EXCEPT !.err = o, !.phase = "done",
                                  !.events = Append(@, "download")]
              /\ pc' = "idle"
    /\ UNCHANGED translation

\* if pre_process: df = preprocess(...)
DownloadPreprocess ==
    /\ pc = "dl_branch"
    /\ dl.pre_process
    /\ dl' = [dl EXCEPT !.df = "preprocessed", !.events = Append(@, "preprocess")]
    /\ pc' = "dl_convert"
    /\ UNCHANGED translation

\* if pre_process: ... if dotstat_codes: df = convert_to_dotstat_codes(df)
DownloadConvert ==
    /\ pc = "dl_convert"
    /\ IF dl.dotstat_codes
       THEN \E o \in Dac1ConvertOutcomes :
              IF o = ""
              THEN /\ dl' = [dl EXCEPT !.df = "dotstat", !.events = Append(@, "convert")]
                   /\ pc' = "dl_return"
              ELSE /\ dl' = [dl EXCEPT !.err = o, !.phase = "done",
                                       !.events = Append(@, "convert")]
                   /\ pc' = "idle"
       ELSE /\ dl' = dl
            /\ pc' = "dl_return"
    /\ UNCHANGED translation

\* else: if dotstat_codes: raise ValueError("Cannot convert to dotstat codes
\* without preprocessing.")
DownloadNoPreprocess ==
    /\ pc = "dl_branch"
    /\ ~dl.pre_process
    /\ IF dl.dotstat_codes
       THEN /\ dl' = [dl EXCEPT !.err = "ValueError", !.phase = "done",
                                !.events = Append(@, "raise")]
            /\ pc' = "idle"
       ELSE /\ dl' = dl
            /\ pc' = "dl_return"
    /\ UNCHANGED translation

\* return df
DownloadReturn ==
    /\ pc = "dl_return"
    /\ dl' = [dl EXCEPT !.returned = TRUE, !.phase = "done"]
    /\ pc' = "idle"
    /\ UNCHANGED translation

InitDac1 ==
    /\ store = [l \in MAPPINGS |-> Absent]
    /\ prices_store = NoPrices
    /\ pc = "idle"
    /\ ret = NoRet
    /\ prev = NoRet
    /\ FreshLocals
    /\ dl = NoDownload

NextDac1 ==
    \/ DownloadCall
    \/ DownloadQueryBuilder
    \/ DownloadSetFilter
    \/ DownloadBuildQuery
    \/ DownloadData
    \/ DownloadPreprocess
    \/ DownloadConvert
    \/ DownloadNoPreprocess
    \/ DownloadReturn

SpecDac1 == InitDac1 /\ [][NextDac1]_vars

(***************************************************************************)
(* Properties                                                              *)
(***************************************************************************)
Steps(l) == [i \in DOMAIN l |-> l[i].step]

Returned == pc = "idle" /\ ret.op = CONVERT /\ ret.returned

\* C1: the mapping area_code_mapping() returns has the keys of the base and
\* of the correction mapping, the correction's value on every key of the
\* correction (also on keys the base has), and the base's value on the rest
C1_CorrectionWins ==
    (ret.op = AREA_CODE_MAPPING /\ ret.err = "") =>
        /\ DOMAIN ret.map = DOMAIN ret.base \cup DOMAIN ret.corr
        /\ \A k \in DOMAIN ret.corr : ret.map[k] = ret.corr[k]
        /\ \A k \in DOMAIN ret.base \ DOMAIN ret.corr : ret.map[k] = ret.base[k]

\* a merge where a shared key carries two different values and another key
\* is only in the base
C1_Witness ==
    /\ ret.op = AREA_CODE_MAPPING
    /\ ret.err = ""
    /\ \E k \in DOMAIN ret.base \cap DOMAIN ret.corr : ret.base[k] # ret.corr[k]
    /\ DOMAIN ret.base \ DOMAIN ret.corr # {}

\* C2: when the corrections document is missing (and the base document is
\* there), area_code_mapping() fails with MissingCorrectionsError and the
\* update pipeline is not run for the corrections
C2_MissingCorrectionsNotFetched ==
    (/\ ret.op = AREA_CODE_MAPPING
     /\ ret.pre[BASE].exists
     /\ ~ret.pre[CORRECTIONS].exists) =>
        /\ ret.err = "MissingCorrectionsError"
        /\ \A i \in DOMAIN ret.fetched : ret.fetched[i] # CORRECTIONS

OneToOne(items) ==
    \A i, j \in DOMAIN items : items[i][2] = items[j][2] => i = j

\* C3: a price mapping that is not one-to-one makes the inversion fail with
\* AmbiguousInversionError, and no inverted mapping is then applied to
\* data_type_code
C3_AmbiguousInversionFails ==
    \A i \in DOMAIN log :
        (log[i].step = "prices_codes" /\ log[i].err \notin {"NetworkError", "UpdateFailedError"}
         /\ ~OneToOne(prices_src)) =>
            /\ log[i].err = "AmbiguousInversionError"
            /\ \A j \in DOMAIN log : log[j].step # "data_type_code"

\* C4: a step of convert_to_dotstat_codes that fails is its last step, its
\* error is the call's outcome and nothing is returned; a Dataset is returned
\* only after all five steps succeeded
C4_AllOrNothing ==
    /\ \A i \in DOMAIN log :
         log[i].err # "" =>
            /\ i = Len(log)
            /\ pc = "idle"
            /\ ret.op = CONVERT
            /\ ret.err = log[i].err
            /\ ~ret.returned
    /\ Returned => (ret.err = "" /\ Steps(log) = ConvertOrder)

\* a conversion that failed while loading the price mapping, after the area
\* mapping was loaded
C4_Witness ==
    /\ pc = "idle"
    /\ ret.op = CONVERT
    /\ ret.err # ""
    /\ Len(log) = 2
    /\ Len(arg) > 0

\* C5: with both documents in the store, area_code_mapping() runs no update
\* and leaves the store alone, and a call that follows another one on the same
\* store has the same outcome
C5_CacheFirstIdempotent ==
    (/\ ret.op = AREA_CODE_MAPPING
     /\ ret.pre[BASE].exists
     /\ ret.pre[CORRECTIONS].exists) =>
        /\ ret.fetched = <<>>
        /\ store = ret.pre
        /\ (prev.op = AREA_CODE_MAPPING /\ prev.pre = ret.pre) =>
              (ret.err = prev.err /\ ret.map = prev.map)

\* two calls in a row on a store holding both documents, returning a
\* non-empty mapping
C5_Witness ==
    /\ ret.op = AREA_CODE_MAPPING
    /\ prev.op = AREA_CODE_MAPPING
    /\ ret.pre[BASE].exists
    /\ ret.pre[CORRECTIONS].exists
    /\ prev.pre = ret.pre
    /\ ret.err = ""
    /\ DOMAIN ret.map # {}

\* C6: the steps of a conversion happen in the order area mapping, inverted
\* price mapping, donor column, recipient column, data-type column; both
\* column steps for area codes use the area mapping that was loaded and the
\* data-type step uses the inverted price mapping that was loaded
C6_StepOrder ==
    /\ Len(log) <= Len(ConvertOrder)
    /\ \A i \in DOMAIN log :
         /\ log[i].step = ConvertOrder[i]
         /\ i > 2 => (log[1].err = "" /\ log[2].err = "")
         /\ log[i].step \in {"donor_code", "recipient_code"} => log[i].mapping = log[1].mapping
         /\ log[i].step = "data_type_code" => log[i].mapping = log[2].mapping

\* a conversion of a non-empty Dataset that ran all five steps
C6_Witness ==
    /\ Returned
    /\ Len(log) = Len(ConvertOrder)
    /\ Len(arg) > 0
    /\ DOMAIN area_codes # {}

\* C7: the returned Dataset has the rows of the input in the same order,
\* its value column is the input's, and the caller's Dataset is as it was
C7_RowsAndOtherColumnsKept ==
    Returned =>
        /\ Len(df) = Len(arg)
        /\ \A i \in DOMAIN arg : df[i].value = arg[i].value
        /\ caller_df = arg

\* a returned Dataset of at least two rows with different values, in which a
\* code was translated
C7_Witness ==
    /\ Returned
    /\ Len(arg) >= 2
    /\ arg[1].value # arg[2].value
    /\ df # arg

\* C8: a donor, recipient or data-type value that is no key of the mapping
\* applied to its column is the same in the returned Dataset
C8_UnmappedPassThrough ==
    Returned =>
        \A i \in DOMAIN arg :
            /\ i \in DOMAIN df
            /\ arg[i].donor_code \notin DOMAIN area_codes
                  => df[i].donor_code = arg[i].donor_code
            /\ arg[i].recipient_code \notin DOMAIN area_codes
                  => df[i].recipient_code = arg[i].recipient_code
            /\ arg[i].data_type_code \notin DOMAIN prices_codes
                  => df[i].data_type_code = arg[i].data_type_code

\* a returned row whose recipient and data type have no entry while its donor
\* has one
C8_Witness ==
    /\ Returned
    /\ \E i \in DOMAIN arg :
         /\ arg[i].donor_code \in DOMAIN area_codes
         /\ arg[i].recipient_code \notin DOMAIN area_codes
         /\ arg[i].data_type_code \notin DOMAIN prices_codes

\* C9: no step of area_code_mapping, update_dac2_translation_mappings or
\* convert_to_dotstat_codes changes the corrections document
C9_CorrectionsReadOnly ==
    [][store'[CORRECTIONS] = store[CORRECTIONS]]_vars

\* the update pipeline has just rewritten the base document beside an
\* existing corrections document
C9_Witness ==
    /\ ret.op = UPDATE_DAC2
    /\ ret.wrote
    /\ store[BASE] # ret.pre[BASE]
    /\ store[CORRECTIONS].exists

\* C10: download_dac1(pre_process=False, dotstat_codes=True) raises before it
\* builds a query or downloads anything, and returns nothing
C10_PreconditionCheckedFirst ==
    (dl.phase # "none" /\ ~dl.pre_process /\ dl.dotstat_codes) =>
        /\ dl.url = <<>>
        /\ dl.df = "none"
        /\ ~dl.returned
        /\ dl.phase = "done" => dl.err = "ValueError"

====
